---- MODULE Spec2Model ----
(***************************************************************************)
(* The action-orchestration pipeline of present-os:                        *)
(*   Backend/app/api/v1/endpoints/actions.py      execute_ai_action        *)
(*   Backend/app/services/ai_skills/scheduling_skill.py                    *)
(*                                     SchedulingSkill.generate_schedule_event *)
(*   Backend/app/services/google_service.py                                *)
(*                                     GoogleService.create_calendar_event *)
(* One request is followed from the goal lookup to its HTTP response.      *)
(***************************************************************************)
EXTENDS Integers, Sequences, FiniteSets, TLC

(***************************************************************************)
(* Bounds of the model.                                                    *)
(***************************************************************************)
\* durations proposed by the AI range over 0..MaxDuration minutes
MaxDuration == 2
\* wall-clock readings (in minutes) that a timestamp text can denote
MaxWall == 620
\* the clock read by datetime.now() ranges over NowBase..NowBase+MaxClockSkew
MaxClockSkew == 1

NowBase == MaxWall - 120
NowValues == NowBase..(NowBase + MaxClockSkew)

(***************************************************************************)
(* Python / JSON values.                                                   *)
(*   k : "object" "array" "str" "int" "float" "null" "absent"              *)
(*   f : for an object, the value stored under each key ("absent" = no     *)
(*       such key)                                                         *)
(*   a : for a str, the pieces whose concatenation is the text; for an     *)
(*       array, its elements (texts)                                       *)
(*   n : for an int its value, for a float its whole part (the float is    *)
(*       n + 0.5)                                                          *)
(***************************************************************************)
Keys == {"title", "description", "duration_minutes", "start_time_iso", "recurrence_rrule"}

Scalar(k, a, n) == [k |-> k, a |-> a, n |-> n]
Absent == Scalar("absent", <<>>, 0)
Null == Scalar("null", <<>>, 0)
Str(a) == Scalar("str", a, 0)
Num(n) == Scalar("int", <<>>, n)
Float(n) == Scalar("float", <<>>, n)

NoFields == [key \in Keys |-> Absent]
Value(k, f, a, n) == [k |-> k, f |-> f, a |-> a, n |-> n]
Obj(f) == Value("object", f, <<>>, 0)
Arr(a) == Value("array", NoFields, a, 0)
Top(s) == Value(s.k, NoFields, s.a, s.n)
None == Top(Null)

\* the text of a str: the concatenation of its pieces
RECURSIVE Text(_)
Text(a) == IF a = <<>> THEN "" ELSE Head(a) \o Text(Tail(a))

\* decimal numerals, as str() writes them and int() reads them
Numeral == [n \in 0..MaxWall |-> ToString(n)]
IsNumeral(w) == \E n \in 0..MaxWall : Numeral[n] = w
NumeralValue(w) == CHOOSE n \in 0..MaxWall : Numeral[n] = w

\* UTC offsets a timestamp text can carry, in minutes
OffsetTexts == {"+00:00", "+01:00"}
OffsetValue(w) == IF w = "+01:00" THEN 60 ELSE 0
OffsetText(m) == IF m = 60 THEN "+01:00" ELSE "+00:00"

\* results of operations that may raise
\* (an HTTPException carries its status code and its detail text)
Ok(v) == [exc |-> "none", status |-> 0, detail |-> "", value |-> v]
Raise(e) == [exc |-> e, status |-> 0, detail |-> "", value |-> None]
HTTPException(s, d) == [exc |-> "HTTPException", status |-> s, detail |-> d, value |-> None]

\* bool(v)
Truthy(v) ==
    CASE v.k = "object" -> \E key \in Keys : v.f[key].k # "absent"
      [] v.k \in {"array", "str"} -> v.a # <<>>
      [] v.k = "int" -> v.n # 0
      [] v.k = "float" -> TRUE
      [] OTHER -> FALSE

\* key in v : "yes", "no", or "TypeError" when v is not a container
Contains(v, key) ==
    CASE v.k = "object" -> IF v.f[key].k # "absent" THEN "yes" ELSE "no"
      [] v.k \in {"array", "str"} -> IF \E i \in 1..Len(v.a) : v.a[i] = key THEN "yes" ELSE "no"
      [] OTHER -> "TypeError"

\* all(k in v for k in keys), evaluated left to right with short circuit:
\* "yes", "no", or "TypeError"
RECURSIVE AllIn(_, _)
AllIn(v, keys) ==
    IF keys = <<>> THEN "yes"
    ELSE LET c == Contains(v, Head(keys))
         IN  IF c = "yes" THEN AllIn(v, Tail(keys)) ELSE c

\* int(v)
PyInt(v) ==
    CASE v.k = "int" -> Ok(Num(v.n))
      [] v.k = "float" -> Ok(Num(v.n))
      [] v.k = "str" -> IF Len(v.a) = 1 /\ IsNumeral(v.a[1])
                        THEN Ok(Num(NumeralValue(v.a[1])))
                        ELSE Raise("ValueError")
      [] OTHER -> Raise("TypeError")

(***************************************************************************)
(* datetime values: wall is the wall-clock reading in minutes, off the UTC *)
(* offset in minutes, aware whether the value carries an offset.           *)
(***************************************************************************)
DateTime(wall, aware, off) == [wall |-> wall, aware |-> aware, off |-> off]
NoTime == DateTime(0, FALSE, 0)

\* datetime.datetime.fromisoformat(text)
fromisoformat(a) ==
    IF Len(a) = 1 /\ IsNumeral(a[1])
    THEN [exc |-> "none", dt |-> DateTime(NumeralValue(a[1]), FALSE, 0)]
    ELSE IF Len(a) = 2 /\ IsNumeral(a[1]) /\ a[2] \in OffsetTexts
    THEN [exc |-> "none", dt |-> DateTime(NumeralValue(a[1]), TRUE, OffsetValue(a[2]))]
    ELSE [exc |-> "ValueError", dt |-> NoTime]

\* datetime.isoformat()
isoformat(dt) ==
    IF dt.aware THEN <<ToString(dt.wall), OffsetText(dt.off)>> ELSE <<ToString(dt.wall)>>

(***************************************************************************)
(* SchedulingSkill.generate_schedule_event                                 *)
(***************************************************************************)
\* what the generative model's endpoint does with one call: it fails, or it
\* answers with a text that is valid JSON for `value` or is not JSON at all
ModelReply(fails, valid, value) == [fails |-> fails, valid |-> valid, value |-> value]

\* json.loads(json_text)
json_loads(reply) ==
    IF reply.valid THEN Ok(reply.value) ELSE Raise("JSONDecodeError")

GEN_REQUIRED == <<"title", "description", "duration_minutes">>

\* the body of the try block: the value returned or the exception raised
generate_try(reply) ==
    IF reply.fails THEN Raise("Exception")
    ELSE LET parsed == json_loads(reply)
         IN  IF parsed.exc # "none" THEN parsed
             ELSE LET has == AllIn(parsed.value, GEN_REQUIRED)
                  IN  CASE has = "TypeError" -> Raise("TypeError")
                        [] has = "no" -> Raise("ValueError")
                        [] OTHER -> Ok(parsed.value)

\* except Exception: every failure is re-raised as a ValueError
generate_schedule_event(reply) ==
    LET r == generate_try(reply)
    IN  IF r.exc # "none" THEN Raise("ValueError") ELSE r

(***************************************************************************)
(* execute_ai_action, step 3c: reading the plan                            *)
(***************************************************************************)
\* event_data[key]
Subscript(v, key) ==
    CASE v.k = "object" -> IF v.f[key].k # "absent" THEN Ok(Top(v.f[key])) ELSE Raise("KeyError")
      [] OTHER -> Raise("TypeError")

\* event_data.get(key)
Get(v, key) ==
    CASE v.k = "object" -> IF v.f[key].k # "absent" THEN Ok(Top(v.f[key])) ELSE Ok(None)
      [] OTHER -> Raise("AttributeError")

required_keys == <<"title", "description", "duration_minutes", "start_time_iso">>

\* the required-key check: "ok", or the exception it ends in
ValidateEventData(event_data) ==
    IF ~Truthy(event_data) THEN HTTPException(500, "AI failed to return valid event data.")
    ELSE LET has == AllIn(event_data, required_keys)
         IN  CASE has = "TypeError" -> Raise("TypeError")
               [] has = "no" -> HTTPException(500, "AI failed to return valid event data.")
               [] OTHER -> Ok(event_data)

\* start_time_str.endswith('Z') and the rewrite of the suffix
NormalizeZulu(a) ==
    IF a # <<>> /\ a[Len(a)] = "Z" THEN SubSeq(a, 1, Len(a) - 1) \o <<"+00:00">> ELSE a

\* the clock fallback: datetime.now(timezone.utc) + timedelta(minutes=1)
FallbackStart(clock) == DateTime(clock + 1, TRUE, 0)

\* the inner try/except ValueError that parses start_time_iso
ParseStart(start_time_str, clock) ==
    IF start_time_str.k # "str" THEN [exc |-> "AttributeError", dt |-> NoTime]
    ELSE LET p == fromisoformat(NormalizeZulu(start_time_str.a))
         IN  CASE p.exc = "none" ->
                    [exc |-> "none",
                     dt |-> IF p.dt.aware THEN p.dt ELSE DateTime(p.dt.wall, TRUE, 0)]
               [] p.exc = "ValueError" -> [exc |-> "none", dt |-> FallbackStart(clock)]
               [] OTHER -> p

\* start_time + datetime.timedelta(minutes=duration_minutes)
EndTime(start_time, duration_minutes) ==
    DateTime(start_time.wall + duration_minutes, start_time.aware, start_time.off)

\* f"{v}"
Format(v) ==
    CASE v.k = "str" -> Text(v.a)
      [] v.k = "int" -> ToString(v.n)
      [] v.k = "float" -> ToString(v.n) \o ".5"
      [] OTHER -> "None"

\* a list[str] | None
NoList == [none |-> TRUE, items |-> <<>>]
List(items) == [none |-> FALSE, items |-> items]

\* recurrence_list = [f"RRULE:{recurrence_rrule_str}"] if recurrence_rrule_str else None
RecurrenceList(recurrence_rrule_str) ==
    IF Truthy(recurrence_rrule_str) THEN List(<<"RRULE:" \o Format(recurrence_rrule_str)>>)
    ELSE NoList

\* bool(recurrence_list)
ListTruthy(l) == ~l.none /\ l.items # <<>>

\* the plan as handed to GoogleService.create_calendar_event
NoArgs == [title |-> None, description |-> None, start_time |-> NoTime,
           end_time |-> NoTime, recurrence |-> NoList]

Failed(r) == [exc |-> r.exc, status |-> r.status, detail |-> r.detail, args |-> NoArgs]
Planned(args) == [exc |-> "none", status |-> 0, detail |-> "", args |-> args]

\* lines 70-102: from the AI result to the arguments of the calendar call,
\* or the exception raised on the way
PlanEvent(event_data, clock) ==
    LET valid == ValidateEventData(event_data)
        duration_item == Subscript(event_data, "duration_minutes")
        duration == PyInt(duration_item.value)
        start_str == Subscript(event_data, "start_time_iso")
        rrule == Get(event_data, "recurrence_rrule")
        start == ParseStart(start_str.value, clock)
    IN  IF valid.exc # "none" THEN Failed(valid)
        ELSE IF duration_item.exc # "none" THEN Failed(duration_item)
        ELSE IF duration.exc # "none" THEN Failed(duration)
        ELSE IF start_str.exc # "none" THEN Failed(start_str)
        ELSE IF rrule.exc # "none" THEN Failed(rrule)
        ELSE IF start.exc # "none" THEN Failed(Raise(start.exc))
        ELSE Planned([title |-> Get(event_data, "title").value,
                      description |-> Get(event_data, "description").value,
                      start_time |-> start.dt,
                      end_time |-> EndTime(start.dt, duration.value.n),
                      recurrence |-> RecurrenceList(rrule.value)])

(***************************************************************************)
(* GoogleService.create_calendar_event                                     *)
(***************************************************************************)
\* the event dict: `keys` are the keys it has
NoEvent == [keys |-> {}, summary |-> None, description |-> None,
            start |-> [dateTime |-> <<>>, timeZone |-> ""],
            end |-> [dateTime |-> <<>>, timeZone |-> ""],
            recurrence |-> <<>>]

\* an event dict built with `event['recurrence'] = recurrence or []`
EventBody_emptylist(args) ==
    [keys |-> {"summary", "description", "start", "end", "recurrence"},
     summary |-> args.title,
     description |-> args.description,
     start |-> [dateTime |-> isoformat(args.start_time), timeZone |-> "UTC"],
     end |-> [dateTime |-> isoformat(args.end_time), timeZone |-> "UTC"],
     recurrence |-> args.recurrence.items]

EventBody(args) ==
    [keys |-> {"summary", "description", "start", "end"}
              \cup (IF ListTruthy(args.recurrence) THEN {"recurrence"} ELSE {}),
     summary |-> args.title,
     description |-> args.description,
     start |-> [dateTime |-> isoformat(args.start_time), timeZone |-> "UTC"],
     end |-> [dateTime |-> isoformat(args.end_time), timeZone |-> "UTC"],
     recurrence |-> IF ListTruthy(args.recurrence) THEN args.recurrence.items ELSE <<>>]

\* the event resource the provider answers an insert with
NoCreated == [summary |-> "", htmlLink |-> ""]
CreatedEvents == [summary : {"Deep work", "(No title)"},
                  htmlLink : {"https://calendar.example/e1", "https://calendar.example/e2"}]

\* service: what the credential refresh does ("ok" / "raises");
\* insert: what events().insert().execute does ("ok" / "HttpError" / "raises")
create_calendar_event(args, service, insert, created) ==
    IF service # "ok"
    THEN [exc |-> "Exception", status |-> 0, detail |-> "", submitted |-> FALSE,
          event |-> NoEvent, created |-> NoCreated]
    ELSE IF insert # "ok"
    THEN [exc |-> "Exception", status |-> 0, detail |-> "", submitted |-> TRUE,
          event |-> EventBody(args), created |-> NoCreated]
    ELSE [exc |-> "none", status |-> 0, detail |-> "", submitted |-> TRUE,
          event |-> EventBody(args), created |-> created]

(***************************************************************************)
(* AIService.execute_task                                                  *)
(***************************************************************************)
\* "schedule_task" is served by SchedulingSkill.generate_schedule_event and
\* its plan is returned under "data"; for any other task type the service
\* returns a result without data, raises an HTTPException or fails
execute_task(task, reply, other) ==
    IF task = "schedule_task" THEN generate_schedule_event(reply)
    ELSE IF other = "returns" THEN Ok(None)
    ELSE IF other = "http_error" THEN HTTPException(400, "Unknown task type.")
    ELSE Raise("Exception")

(***************************************************************************)
(* execute_ai_action: the exception handlers of its three stages           *)
(***************************************************************************)
\* a handler that swallows the failure and lets the request go on
GoalCatch_swallow(r) == Ok(None)

\* stage 1: except Exception (an HTTPException is an Exception)
GoalCatch(r) ==
    IF r.exc = "none" THEN r
    ELSE [r EXCEPT !.exc = "HTTPException", !.status = 500, !.detail = "Error fetching goal: "]

\* a handler without the `except HTTPException: raise e` clause
StageCatch_wrapall(r, detail) ==
    IF r.exc = "none" THEN r
    ELSE [r EXCEPT !.exc = "HTTPException", !.status = 500, !.detail = detail]

\* a handler without the `except Exception` clause
StageCatch_passthrough(r, detail) == r

\* stages 2 and 3: except HTTPException: raise e / except Exception
StageCatch(r, detail) ==
    IF r.exc \in {"none", "HTTPException"} THEN r
    ELSE [r EXCEPT !.exc = "HTTPException", !.status = 500, !.detail = detail]

(***************************************************************************)
(* Inputs of a request.                                                    *)
(***************************************************************************)
TaskTypes == {"schedule_task", "unknown_type"}

\* the wall-clock reading written in the AI's timestamps
PlanWall == MaxWall - 20

TitleValues == {Absent, Str(<<"Deep work">>)}
DescriptionValues == {Absent, Str(<<"A step towards the goal">>)}
DurationValues ==
    {Absent, Null, Float(1), Str(<<Numeral[MaxDuration]>>), Str(<<"1.5">>), Str(<<"half an hour">>)}
    \cup {Num(d) : d \in 0..MaxDuration}
StartValues ==
    {Absent, Null, Num(PlanWall), Str(<<>>), Str(<<"tomorrow">>), Str(<<"tomorrow", "Z">>),
     Str(<<Numeral[PlanWall]>>), Str(<<Numeral[PlanWall], "Z">>),
     Str(<<Numeral[PlanWall], "+00:00">>), Str(<<Numeral[PlanWall], "+01:00">>)}
RruleValues == {Absent, Null, Str(<<>>), Str(<<"FREQ=WEEKLY;COUNT=5">>), Str(<<"FREQ=DAILY">>)}

Objects ==
    {Obj(f) : f \in [title : TitleValues, description : DescriptionValues,
                     duration_minutes : DurationValues, start_time_iso : StartValues,
                     recurrence_rrule : RruleValues]}
Lists ==
    {<<>>, <<"title">>, <<"title", "description">>,
     <<"title", "description", "duration_minutes">>,
     <<"title", "description", "duration_minutes", "start_time_iso">>}
ReplyValues ==
    Objects \cup {Arr(a) : a \in Lists} \cup {Top(Str(a)) : a \in Lists} \cup {Top(Num(5)), None}

ModelReplies ==
    {ModelReply(TRUE, FALSE, None), ModelReply(FALSE, FALSE, None)}
    \cup {ModelReply(FALSE, TRUE, v) : v \in ReplyValues}
NoReply == ModelReply(FALSE, FALSE, None)

(***************************************************************************)
(* State of one request.                                                   *)
(***************************************************************************)
VARIABLES
    pc,             \* the stage the handler is at
    task_type,      \* request.task_type
    goal,           \* TRUE once get_user_goal returned a goal
    reply,          \* what the generative model answered in this request
    ai_result,      \* ai_result.get("data")
    clock,          \* the reading of datetime.now() in this request
    plan,           \* the arguments of GoogleService.create_calendar_event
    event,          \* the event dict submitted to the calendar provider
    created_event,  \* the event resource the provider returned
    response,       \* the HTTP response
    calls           \* the collaborator calls made so far, in order

vars == <<pc, task_type, goal, reply, ai_result, clock, plan, event, created_event,
          response, calls>>

NoBody == [message |-> "", event_title |-> "", event_link |-> "", recurrence_applied |-> FALSE]
\* kind: "pending", "return", or the exception that left the handler;
\* cause: the exception that was raised inside the stage's try block
Pending == [kind |-> "pending", cause |-> "none", status |-> 0, detail |-> "", body |-> NoBody]
Raised(inner, r) ==
    [kind |-> r.exc, cause |-> inner.exc, status |-> r.status, detail |-> r.detail, body |-> NoBody]
Returned(body) ==
    [kind |-> "return", cause |-> "none", status |-> 201, detail |-> "", body |-> body]
\* result: "ok", "none" (returned nothing usable), "http_error" or "error" (raised)
Call(name, result) == [name |-> name, result |-> result]

\* a response body with the two fields of the created event exchanged
SuccessBody_swapped(created, recurrence_list) ==
    [message |-> "Task scheduled successfully",
     event_title |-> created.htmlLink,
     event_link |-> created.summary,
     recurrence_applied |-> ListTruthy(recurrence_list)]

\* the dict returned on success
SuccessBody(created, recurrence_list) ==
    [message |-> "Task scheduled successfully",
     event_title |-> created.summary,
     event_link |-> created.htmlLink,
     recurrence_applied |-> ListTruthy(recurrence_list)]

Init ==
    /\ pc = "FetchGoal"
    /\ task_type \in TaskTypes
    /\ goal = FALSE
    /\ reply = NoReply
    /\ ai_result = None
    /\ clock = 0
    /\ plan = NoArgs
    /\ event = NoEvent
    /\ created_event = NoCreated
    /\ response = Pending
    /\ calls = <<>>

\* stage 1: get_user_goal
FetchGoal ==
    /\ pc = "FetchGoal"
    /\ \E outcome \in {"found", "absent", "raises"} :
         LET inner == IF outcome = "found" THEN Ok(None)
                      ELSE IF outcome = "absent"
                      THEN HTTPException(404, "Goal not found. Please create the goal first.")
                      ELSE Raise("Exception")
             r == GoalCatch(inner)
         IN  /\ calls' = Append(calls, Call("get_user_goal",
                                 IF outcome = "found" THEN "ok"
                                 ELSE IF outcome = "absent" THEN "none" ELSE "error"))
             /\ goal' = (outcome = "found")
             /\ IF r.exc = "none"
                THEN pc' = "GeneratePlan" /\ response' = response
                ELSE pc' = "Done" /\ response' = Raised(inner, r)
    /\ UNCHANGED <<task_type, reply, ai_result, clock, plan, event, created_event>>

\* stage 2: AIService.execute_task
GeneratePlan ==
    /\ pc = "GeneratePlan"
    /\ \E rep \in (IF task_type = "schedule_task" THEN ModelReplies ELSE {NoReply}),
          other \in (IF task_type = "schedule_task" THEN {"returns"}
                     ELSE {"returns", "http_error", "raises"}) :
         LET inner == execute_task(task_type, rep, other)
             r == StageCatch(inner, "Error in AI service: ")
         IN  /\ reply' = rep
             /\ calls' = Append(calls, Call("execute_task",
                                 IF inner.exc = "none" THEN "ok"
                                 ELSE IF inner.exc = "HTTPException" THEN "http_error"
                                 ELSE "error"))
             /\ IF r.exc = "none"
                THEN pc' = "Dispatch" /\ ai_result' = r.value /\ response' = response
                ELSE pc' = "Done" /\ ai_result' = ai_result /\ response' = Raised(inner, r)
    /\ UNCHANGED <<task_type, goal, clock, plan, event, created_event>>

\* stage 3 entered without the test of request.task_type
ScheduleTask_anytype ==
    /\ pc = "Dispatch"
    /\ \E token \in {"present", "absent", "raises"},
          decrypt \in {"ok", "none", "raises"},
          now \in NowValues :
         LET inner == IF token = "raises" THEN Failed(Raise("Exception"))
                      ELSE IF token = "absent"
                      THEN Failed(HTTPException(401, "User has not authorized Google Calendar."))
                      ELSE IF decrypt = "raises" THEN Failed(Raise("Exception"))
                      ELSE IF decrypt = "none"
                      THEN Failed(HTTPException(401, "Could not decrypt calendar token."))
                      ELSE PlanEvent(ai_result, now)
             r == StageCatch(inner, "Failed to create calendar event: ")
         IN  /\ clock' = now
             /\ calls' = calls
                         \o <<Call("get_user_google_token",
                                   IF token = "present" THEN "ok"
                                   ELSE IF token = "absent" THEN "none" ELSE "error")>>
                         \o (IF token = "present"
                             THEN <<Call("TokenSecurity.decrypt",
                                         IF decrypt = "raises" THEN "error" ELSE decrypt)>>
                             ELSE <<>>)
             /\ plan' = r.args
             /\ IF r.exc = "none"
                THEN pc' = "Create" /\ response' = response
                ELSE pc' = "Done" /\ response' = Raised(inner, r)
    /\ UNCHANGED <<task_type, goal, reply, ai_result, event, created_event>>

\* stage 3, up to the call of GoogleService.create_calendar_event
ScheduleTask ==
    /\ pc = "Dispatch"
    /\ task_type = "schedule_task"
    /\ \E token \in {"present", "absent", "raises"},
          decrypt \in {"ok", "none", "raises"},
          now \in NowValues :
         LET inner == IF token = "raises" THEN Failed(Raise("Exception"))
                      ELSE IF token = "absent"
                      THEN Failed(HTTPException(401, "User has not authorized Google Calendar."))
                      ELSE IF decrypt = "raises" THEN Failed(Raise("Exception"))
                      ELSE IF decrypt = "none"
                      THEN Failed(HTTPException(401, "Could not decrypt calendar token."))
                      ELSE PlanEvent(ai_result, now)
             r == StageCatch(inner, "Failed to create calendar event: ")
         IN  /\ clock' = now
             /\ calls' = calls
                         \o <<Call("get_user_google_token",
                                   IF token = "present" THEN "ok"
                                   ELSE IF token = "absent" THEN "none" ELSE "error")>>
                         \o (IF token = "present"
                             THEN <<Call("TokenSecurity.decrypt",
                                         IF decrypt = "raises" THEN "error" ELSE decrypt)>>
                             ELSE <<>>)
             /\ plan' = r.args
             /\ IF r.exc = "none"
                THEN pc' = "Create" /\ response' = response
                ELSE pc' = "Done" /\ response' = Raised(inner, r)
    /\ UNCHANGED <<task_type, goal, reply, ai_result, event, created_event>>

\* any other task type: the final raise
Unhandled ==
    /\ pc = "Dispatch"
    /\ task_type # "schedule_task"
    /\ pc' = "Done"
    /\ response' = Raised(HTTPException(400, "Action executed but no output was produced."),
                          HTTPException(400, "Action executed but no output was produced."))
    /\ UNCHANGED <<task_type, goal, reply, ai_result, clock, plan, event, created_event, calls>>

\* stage 3d: GoogleService.create_calendar_event and the response
CreateCalendarEvent ==
    /\ pc = "Create"
    /\ \E service \in {"ok", "raises"},
          insert \in {"ok", "HttpError", "raises"},
          created \in CreatedEvents :
         LET inner == create_calendar_event(plan, service, insert, created)
             r == StageCatch(inner, "Failed to create calendar event: ")
         IN  /\ calls' = Append(calls, Call("create_calendar_event",
                                 IF inner.exc = "none" THEN "ok" ELSE "error"))
             /\ event' = r.event
             /\ created_event' = r.created
             /\ response' = IF r.exc = "none"
                            THEN Returned(SuccessBody(r.created, plan.recurrence))
                            ELSE Raised(inner, r)
    /\ pc' = "Done"
    /\ UNCHANGED <<task_type, goal, reply, ai_result, clock, plan>>

Next == FetchGoal \/ GeneratePlan \/ ScheduleTask \/ Unhandled \/ CreateCalendarEvent

Spec == Init /\ [][Next]_vars

(***************************************************************************)
(* Properties.                                                             *)
(***************************************************************************)
Made(name) == \E i \in DOMAIN calls : calls[i].name = name
Result(name, result) == \E i \in DOMAIN calls : calls[i] = Call(name, result)
IsExternal(c) == c.name # "TokenSecurity.decrypt"
ExternalCalls == SelectSeq(calls, IsExternal)
CallOrder == <<"get_user_goal", "execute_task", "get_user_google_token", "create_calendar_event">>
HasKey(v, key) == v.k = "object" /\ v.f[key].k # "absent"

\* C1: when the goal lookup returns no goal, the response is HTTP 404 and
\* neither the AI call, the credential lookup nor the calendar insert is made.
C1_GoalNotFound ==
    Result("get_user_goal", "none") =>
        /\ response.status = 404
        /\ ~Made("execute_task")
        /\ ~Made("get_user_google_token")
        /\ ~Made("create_calendar_event")

\* C2: a schedule_task request whose credential is missing or does not
\* decrypt is answered with HTTP 401, after the AI step has succeeded and
\* without any call of create_calendar_event, whatever the plan holds.
C2_Unauthorized ==
    (/\ task_type = "schedule_task"
     /\ \/ Result("get_user_google_token", "none")
        \/ Result("TokenSecurity.decrypt", "none")) =>
        /\ pc = "Done"
        /\ response.kind = "HTTPException"
        /\ response.status = 401
        /\ goal
        /\ Result("execute_task", "ok")
        /\ ~Made("create_calendar_event")
        /\ event = NoEvent

C2_Witness ==
    /\ Result("TokenSecurity.decrypt", "none")
    /\ response.status = 401
    /\ ~HasKey(ai_result, "start_time_iso")

\* C3: a request of any other task type whose goal lookup and AI step
\* succeeded is answered with HTTP 400 "no output was produced", and no
\* credential lookup, decryption or calendar insert is made in it.
C3_Unhandled ==
    (task_type # "schedule_task" /\ Result("execute_task", "ok")) =>
        /\ pc \in {"Dispatch", "Done"}
        /\ pc = "Done" =>
              /\ response.kind = "HTTPException"
              /\ response.status = 400
              /\ response.detail = "Action executed but no output was produced."
        /\ ~Made("get_user_google_token")
        /\ ~Made("TokenSecurity.decrypt")
        /\ ~Made("create_calendar_event")
        /\ event = NoEvent

C3_Witness ==
    /\ task_type = "unknown_type"
    /\ Result("execute_task", "ok")
    /\ response.status = 400

\* C4: when the calendar insert succeeds the response is the success response
\* (201) carrying the created event's summary and htmlLink, and a success
\* response is produced only in a request whose insert succeeded.
C4_Success ==
    /\ Result("create_calendar_event", "ok") =>
          /\ task_type = "schedule_task"
          /\ goal
          /\ AllIn(ai_result, required_keys) = "yes"
          /\ Result("TokenSecurity.decrypt", "ok")
          /\ response.kind = "return"
          /\ response.status = 201
          /\ response.body.event_title = created_event.summary
          /\ response.body.event_link = created_event.htmlLink
    /\ (response.kind = "return" \/ response.status = 201) =>
          /\ Result("create_calendar_event", "ok")
          /\ event # NoEvent
          /\ created_event \in CreatedEvents

C4_Witness ==
    /\ response.status = 201
    /\ response.body.event_title = "(No title)"
    /\ response.body.event_link = "https://calendar.example/e2"

\* C5: the external calls of a request are made in the order goal fetch, AI
\* call, credential fetch, calendar create, each at most once, and a call is
\* made only when every call before it returned successfully.
C5_Sequential ==
    LET ext == ExternalCalls
    IN  /\ Len(ext) <= Len(CallOrder)
        /\ \A i \in 1..Len(ext) :
              /\ ext[i].name = CallOrder[i]
              /\ i < Len(ext) => ext[i].result = "ok"

C5_Witness ==
    /\ Len(ExternalCalls) = Len(CallOrder)
    /\ Result("create_calendar_event", "error")

\* C6: a schedule_task plan with title, description and duration_minutes but
\* without start_time_iso is scheduled at now(UTC) + 1 minute, with
\* end = start + duration_minutes, and the calendar insert is attempted.
C6_MissingStartFallsBack ==
    (/\ task_type = "schedule_task"
     /\ Result("TokenSecurity.decrypt", "ok")
     /\ HasKey(ai_result, "title")
     /\ HasKey(ai_result, "description")
     /\ HasKey(ai_result, "duration_minutes")
     /\ ai_result.f["duration_minutes"].k = "int"
     /\ ~HasKey(ai_result, "start_time_iso")) =>
        /\ pc = "Create" \/ Made("create_calendar_event")
        /\ plan.start_time = FallbackStart(clock)
        /\ plan.end_time = EndTime(FallbackStart(clock), ai_result.f["duration_minutes"].n)

\* C7: for a plan that passed the required-key check, time resolution never
\* fails, whatever the values of start_time_iso and duration_minutes: the
\* calendar insert is attempted with end = start + duration_minutes.
C7_ResolutionNeverRaises ==
    (/\ task_type = "schedule_task"
     /\ Result("TokenSecurity.decrypt", "ok")
     /\ ai_result.k = "object"
     /\ AllIn(ai_result, required_keys) = "yes") =>
        /\ pc = "Create" \/ Made("create_calendar_event")
        /\ ai_result.f["start_time_iso"].k # "str" => plan.start_time = FallbackStart(clock)
        /\ ai_result.f["duration_minutes"].k = "int" =>
              plan.end_time = EndTime(plan.start_time, ai_result.f["duration_minutes"].n)

\* C8: generate_schedule_event returns a plan only for a reply that is valid
\* JSON for an object holding title, description and duration_minutes; for
\* every other reply it fails.
C8_OnlyCompleteObjects ==
    (task_type = "schedule_task" /\ Made("execute_task")) =>
        (generate_schedule_event(reply).exc = "none" =>
            /\ ~reply.fails
            /\ reply.valid
            /\ reply.value.k = "object"
            /\ \A i \in DOMAIN GEN_REQUIRED : HasKey(reply.value, GEN_REQUIRED[i]))

\* C9: the submitted event has recurrence = ["RRULE:" + r] for a non-empty
\* rule r and no recurrence field for an absent, null or empty rule, and
\* recurrence_applied tells whether the field was submitted.
C9_Recurrence ==
    event # NoEvent =>
        LET r == ai_result.f["recurrence_rrule"]
        IN  /\ (r.k = "str" /\ r.a # <<>>) =>
                  /\ "recurrence" \in event.keys
                  /\ event.recurrence = <<"RRULE:" \o Text(r.a)>>
            /\ r = Str(<<"FREQ=WEEKLY;COUNT=5">>) =>
                  event.recurrence = <<"RRULE:FREQ=WEEKLY;COUNT=5">>
            /\ (r.k \in {"absent", "null"} \/ (r.k = "str" /\ r.a = <<>>)) =>
                  "recurrence" \notin event.keys
            /\ response.kind = "return" =>
                  response.body.recurrence_applied = ("recurrence" \in event.keys)

C9_Witness ==
    /\ event.recurrence = <<"RRULE:FREQ=WEEKLY;COUNT=5">>
    /\ response.kind = "return"
    /\ response.body.recurrence_applied

\* C10: an exception without a client-facing status, raised in any stage,
\* ends the request with HTTP 500: never a success, never another status,
\* and never an exception leaving the handler unwrapped.
C10_InternalError ==
    /\ response.kind \in {"pending", "return", "HTTPException"}
    /\ response.cause \notin {"none", "HTTPException"} =>
          /\ response.kind = "HTTPException"
          /\ response.status = 500
    /\ (calls # <<>> /\ calls[Len(calls)].result = "error") =>
          /\ pc = "Done"
          /\ response.kind = "HTTPException"
          /\ response.status = 500

C10_Witness ==
    /\ Result("create_calendar_event", "error")
    /\ response.cause = "Exception"
    /\ response.status = 500

====
